---- MODULE Spec2Model ----
(***************************************************************************)
(* Model of the user-action (interaction) detector and of the request      *)
(* lifecycle tracker of the browser SDK.                                    *)
(*                                                                         *)
(* userActionCollection.ts exists in two versions: one where newUserAction *)
(* returns an Observable of lifecycle events (Extended / Aborted / Ended)  *)
(* and one where it returns a Promise.  The variable `variant` selects the *)
(* version; both are explored.                                             *)
(*                                                                         *)
(* Time is the value of performance.now().  Handlers run at instants; an   *)
(* environment action carries the delay d elapsed since the previous       *)
(* handler, and a timer fires exactly at its deadline.                     *)
(***************************************************************************)
EXTENDS Integers, FiniteSets, Sequences, TLC

\* ---------------------------------------------------------------- bounds
MaxClicks == 2
MaxRequests == 2
MaxEvents == 4
MaxStartCalls == 2
MaxViewInputs == 4
MaxDomStarts == 3
MaxDomChanges == 3

\* ------------------------------------------------------ program constants
IDLE_DELAY == 100
BUSY_DELAY == 100

\* Delays (ms) the environment may let pass between two handlers.
Delays == {0, 10, 20, 100, 240}

Ids == 1..MaxClicks
RequestIds == 1..MaxRequests
Undefined == 0
NoTime == -1
Variants == {"observable", "promise"}
EntryTypes == {"resource", "longtask"}

VARIABLES
    variant,          \* which version of userActionCollection.ts runs
    now,              \* performance.now()
    nextId,           \* number of ids generateUUID() has handed out to newUserAction
    userActionId,     \* the module-level cell read by getUserActionId()
    ua,               \* per interaction: the closure state of newUserAction / trackPageChanges
    published,        \* per interaction: what the detector has published so far
    report,           \* per interaction: the terminal USER_ACTION_COLLECTED report
    lastSignal,       \* per interaction: when its correlator last called notifyChange
    reqState,         \* per request id: what the lifecycle has carried for it
    nEvents,          \* number of environment events (clicks, lifecycle signals) so far
    emitted,          \* per interaction: what its correlator notified during the last step
    seenStart,        \* per interaction: the request ids whose Start its correlator received
    lastEvent,        \* the lifecycle event the last step notified, if any
    xhr,              \* tracker: the XMLHttpRequest object
    fetches,          \* tracker: per request id, the state of a fetch call
    reqLog,           \* tracker: per request id, the events notified on requestObservable
    nextRequestId,    \* tracker: number of ids generateUUID() has handed out to requests
    collection,       \* tracker: requestObservable and the wrappers startRequestCollection installed
    trackedCalls,     \* tracker: number of send() / fetch() calls made through the wrappers
    request,          \* classifier: the RequestDetails handed to isRejected / isServerError
    verdict,          \* classifier: what the two functions returned for it
    location,         \* view tracker: the Location object (pathname, search, hash)
    viewId,           \* view tracker: the exported current view id
    activeLocation,   \* view tracker: the location the current view began at
    viewMeasures,     \* view tracker: errorCount, longTaskCount, userActionCount of the view
    rumEvents,        \* view tracker: the view events handed to addRumEvent, in order
    notifiedSinceView,\* view tracker: lifecycle events notified since the view began
    nViewInputs,      \* view tracker: number of pushState calls and notifications so far
    hasStarted,       \* DOM mutation collection: the module-level flag
    observers,        \* DOM mutation collection: the lifeCycle each installed observer notifies
    domNotified,      \* per lifeCycle: number of DOM_MUTATED notifications it received
    startCalls,       \* the lifeCycles passed to startDOMMutationCollection, in call order
    domChanges,       \* number of DOM changes so far
    domChangesSinceStart  \* number of DOM changes since the first startDOMMutationCollection

detectorVars == <<variant, now, nextId, userActionId, ua, published, report, lastSignal, reqState,
                  nEvents, emitted, seenStart, lastEvent>>
trackerVars == <<xhr, fetches, reqLog, nextRequestId, collection, trackedCalls>>
classifierVars == <<request, verdict>>
viewVars == <<location, viewId, activeLocation, viewMeasures, rumEvents, notifiedSinceView,
              nViewInputs>>
domVars == <<hasStarted, observers, domNotified, startCalls, domChanges, domChangesSinceStart>>
nonDetectorVars == <<trackerVars, classifierVars, viewVars, domVars>>
nonTrackerVars == <<detectorVars, classifierVars, viewVars, domVars>>
vars == <<detectorVars, trackerVars, classifierVars, viewVars, domVars>>

\* ------------------------------------------------------------ small helpers
Max(S) == CHOOSE x \in S : \A y \in S : y <= x
Min(S) == CHOOSE x \in S : \A y \in S : x <= y

NoReport == [name |-> "none", at |-> NoTime, duration |-> NoTime]
NothingPublished == [extended |-> 0, aborted |-> 0, ended |-> 0, last |-> "None"]
NotCreated == [startTime |-> NoTime, subscribed |-> FALSE, validationTimeoutId |-> NoTime,
               idleTimeoutId |-> NoTime, time |-> NoTime, pendingRequests |-> {},
               timers |-> {}]

\* ------------------------------------------------------------------ timers
\* setTimeout(cb, delay) called at time t: the timer id is modelled by its deadline.
SetTimeout(t, delay) == t + delay

\* A timer of an interaction, as the browser holds it until it fires or is cleared.
Timer(kind, id) == [kind |-> kind, deadline |-> id]

\* setTimeout's effect on the timers the browser holds for the interaction.
Arm(timers, kind, id) == timers \cup {Timer(kind, id)}

\* clearTimeout(id): the timer with that id, if still armed, is dropped; an id
\* that is undefined, or whose timer fired or was cleared, changes nothing.
ClearTimeout(timers, kind, id) == timers \ {Timer(kind, id)}

\* Deadlines of every timer that is armed (set and neither fired nor cleared).
ArmedDeadlines == UNION {{tm.deadline : tm \in ua[i].timers} : i \in Ids}

\* The environment may run another handler d ms from now only if its budget of
\* events is not used up and no armed timer is due earlier.
\* While no interaction is subscribed nothing reads the clock but the next
\* click's startTime, so only d = 0 is explored then.
CanElapse(d) ==
    /\ nEvents < MaxEvents
    /\ \A dl \in ArmedDeadlines : now + d <= dl
    /\ (\A i \in Ids : ~ua[i].subscribed) => d = 0

\* A timer fires when its deadline is the earliest armed one.
IsDue(deadline) == deadline = Min(ArmedDeadlines)

\* ------------------------------------------------------- trackPageChanges
\* notifyChange: isBusy: pendingRequests.size > 0
IsBusy(pendingRequests) == Cardinality(pendingRequests) > 0

\* PERFORMANCE_ENTRY_COLLECTED handler: does this entry reach notifyChange?
PerformanceEntryCounts(v, entryType) ==
    IF v = "observable" THEN entryType = "resource" ELSE TRUE

\* stop(): subscriptions.forEach((s) => s.unsubscribe())
Stop(u) == [u EXCEPT !.subscribed = FALSE]

\* ---------------------------------------------------------- newUserAction
\* State of a new interaction right after newUserAction returned, at time t.
NewUserAction(t) ==
    [startTime |-> t, subscribed |-> TRUE,
     validationTimeoutId |-> SetTimeout(t, BUSY_DELAY),
     idleTimeoutId |-> NoTime, time |-> NoTime, pendingRequests |-> {},
     timers |-> Arm({}, "validation", SetTimeout(t, BUSY_DELAY))]

\* The cell after newUserAction ran for `id`: the observable version writes
\* userActionId = id right away, the promise version leaves it alone.
CellAfterTrigger(v, cell, id) == IF v = "observable" THEN id ELSE cell

\* The timers left after clearTimeout(validationTimeoutId); clearTimeout(idleTimeoutId)
ClearBoth(u) ==
    ClearTimeout(ClearTimeout(u.timers, "validation", u.validationTimeoutId),
                 "idle", u.idleTimeoutId)

\* Variant of OnChange that forgets clearTimeout(validationTimeoutId).
OnChangeKeepsValidation(u, t) ==
    IF ~IsBusy(u.pendingRequests)
    THEN [u EXCEPT !.time = t,
                   !.idleTimeoutId = SetTimeout(t, IDLE_DELAY),
                   !.timers = Arm(ClearTimeout(u.timers, "idle", u.idleTimeoutId),
                                  "idle", SetTimeout(t, IDLE_DELAY))]
    ELSE [u EXCEPT !.time = t,
                   !.timers = ClearTimeout(u.timers, "idle", u.idleTimeoutId)]

\* Variant of OnChange that arms the idle timer whatever isBusy says.
OnChangeIgnoresBusy(u, t) ==
    [u EXCEPT !.time = t,
              !.idleTimeoutId = SetTimeout(t, IDLE_DELAY),
              !.timers = Arm(ClearBoth(u), "idle", SetTimeout(t, IDLE_DELAY))]

\* Variant of OnChange that tests isBusy instead of !isBusy.
OnChangeInverted(u, t) ==
    IF IsBusy(u.pendingRequests)
    THEN [u EXCEPT !.time = t,
                   !.idleTimeoutId = SetTimeout(t, IDLE_DELAY),
                   !.timers = Arm(ClearBoth(u), "idle", SetTimeout(t, IDLE_DELAY))]
    ELSE [u EXCEPT !.time = t, !.timers = ClearBoth(u)]

\* Variant of OnChange that forgets clearTimeout(idleTimeoutId).
OnChangeKeepsIdle(u, t) ==
    LET cleared == ClearTimeout(u.timers, "validation", u.validationTimeoutId)
    IN  IF ~IsBusy(u.pendingRequests)
        THEN [u EXCEPT !.time = t,
                       !.idleTimeoutId = SetTimeout(t, IDLE_DELAY),
                       !.timers = Arm(cleared, "idle", SetTimeout(t, IDLE_DELAY))]
        ELSE [u EXCEPT !.time = t, !.timers = cleared]

\* changesObservable.subscribe callback, run at time t for closure state u:
\* both timers cleared, `time` taken, and the idle timer armed if not busy.
OnChange(u, t) ==
    IF ~IsBusy(u.pendingRequests)
    THEN [u EXCEPT !.time = t,
                   !.idleTimeoutId = SetTimeout(t, IDLE_DELAY),
                   !.timers = Arm(ClearBoth(u), "idle", SetTimeout(t, IDLE_DELAY))]
    ELSE [u EXCEPT !.time = t, !.timers = ClearBoth(u)]

\* The cell after the change callbacks of the interactions in `notified` ran, in
\* subscription order: the promise version writes userActionId = id in each.
CellAfterChange(v, cell, notified) ==
    IF v = "promise" /\ notified # {} THEN Max(notified) ELSE cell

\* The cell after the validation timer's callback ran: no write in either version.
CellAfterAbort(v, cell, id) == cell

\* The cell after the idle timer's callback ran: userActionId = undefined
CellAfterEnd(v, cell, id) == Undefined

\* result.notify(Extended): only the observable version publishes it.
PublishExtended(v, p) ==
    IF v = "observable"
    THEN [p EXCEPT !.extended = @ + 1, !.last = "Extended"]
    ELSE p

\* A promise settles once: a later resolve() is ignored.
Settled(p) == p.aborted + p.ended > 0

\* result.notify(Aborted) / resolve(undefined)
PublishAborted(v, p) ==
    IF v = "promise" /\ Settled(p) THEN p
    ELSE [p EXCEPT !.aborted = @ + 1, !.last = "Aborted"]

\* result.notify(Ended) / resolve({id, end})
PublishEnded(v, p) ==
    IF v = "promise" /\ Settled(p) THEN p
    ELSE [p EXCEPT !.ended = @ + 1, !.last = "Ended"]

\* ---------------------------------------------- startUserActionCollection
\* Variant of AbortedReport that carries a duration like the completed report.
AbortedReportWithDuration(u, t) ==
    [name |-> "click ignored", at |-> t, duration |-> t - u.startTime]

\* USER_ACTION_COLLECTED for an aborted interaction: no duration field.
AbortedReport(u, t) == [name |-> "click ignored", at |-> t, duration |-> NoTime]

\* Variant of EndedReport that measures up to the moment the idle timer fires.
EndedReportAtFire(u, t) == [name |-> "click", at |-> t, duration |-> t - u.startTime]

\* USER_ACTION_COLLECTED for an ended interaction:
\* duration: lifeCycleEvent.time - startTime  /  userAction.end - startTime
EndedReport(u, t) == [name |-> "click", at |-> t, duration |-> u.time - u.startTime]

\* ------------------------------------------------------------------- Init
\* The lifecycle events the detector subscribes to, with the part of their
\* payload the correlator reads; NoEvent when a step notified none.
NoEvent == [type |-> "none"]
DomMutatedEvent == [type |-> "DOM_MUTATED"]
PerformanceEntryEvent(entryType) ==
    [type |-> "PERFORMANCE_ENTRY_COLLECTED", entryType |-> entryType]
RequestEvent(kind, r) == [type |-> "REQUEST_COLLECTED", kind |-> kind, requestId |-> r]

\* No correlator notified anything.
NothingEmitted == [i \in Ids |-> <<>>]

\* Variant of NotifyChange that is busy only from the second pending request on.
NotifyChangeOffByOne(pendingRequests) == [isBusy |-> Cardinality(pendingRequests) > 1]

\* notifyChange(): the event a correlator notifies on its own observable.
NotifyChange(pendingRequests) == [isBusy |-> Cardinality(pendingRequests) > 0]

\* Variant of AfterStart that forgets to record the request.
AfterStartForgets(pendingRequests, r) == pendingRequests

\* pendingRequests.set(requestId, details) / pendingRequests.add(requestId)
AfterStart(pendingRequests, r) == pendingRequests \cup {r}

\* pendingRequests.delete(requestId)
AfterEnd(pendingRequests, r) == pendingRequests \ {r}

DetectorInit ==
    /\ variant \in Variants
    /\ now = 0
    /\ nextId = 0
    /\ userActionId = Undefined
    /\ ua = [i \in Ids |-> NotCreated]
    /\ published = [i \in Ids |-> NothingPublished]
    /\ report = [i \in Ids |-> NoReport]
    /\ lastSignal = [i \in Ids |-> NoTime]
    /\ reqState = [r \in RequestIds |-> "new"]
    /\ nEvents = 0
    /\ emitted = NothingEmitted
    /\ seenStart = [i \in Ids |-> {}]
    /\ lastEvent = NoEvent

Subscribed == {i \in Ids : ua[i].subscribed}

\* One lifeCycle.notify delivered at time t: `pending` is every correlator's
\* pendingRequests after its handler ran, `notified` the correlators that called
\* notifyChange.
Deliver(t, pending, notified) ==
    /\ now' = t
    /\ nEvents' = nEvents + 1
    /\ ua' = [i \in Ids |->
                LET u == [ua[i] EXCEPT !.pendingRequests = pending[i]]
                IN  IF i \in notified THEN OnChange(u, t) ELSE u]
    /\ published' = [i \in Ids |->
                IF i \in notified THEN PublishExtended(variant, published[i])
                ELSE published[i]]
    /\ lastSignal' = [i \in Ids |-> IF i \in notified THEN t ELSE lastSignal[i]]
    /\ userActionId' = CellAfterChange(variant, userActionId, notified)
    /\ emitted' = [i \in Ids |->
                IF i \in notified THEN <<NotifyChange(pending[i])>> ELSE <<>>]
    /\ UNCHANGED <<variant, nextId, report>>

SamePending == [i \in Ids |-> ua[i].pendingRequests]

\* Variant of EndNotified that notifies whether or not the id was pending.
EndNotifiedAlways(r) == Subscribed

\* The correlators for which pendingRequests.delete(r) returns true.
EndNotified(r) == {i \in Subscribed : r \in ua[i].pendingRequests}

\* ---------------------------------------------------------------- actions
\* A click: the listener of startUserActionCollection runs newUserAction.
Click(d) ==
    /\ nextId < MaxClicks
    /\ CanElapse(d)
    /\ LET id == nextId + 1
           t == now + d
       IN  /\ now' = t
           /\ nEvents' = nEvents + 1
           /\ nextId' = id
           /\ ua' = [ua EXCEPT ![id] = NewUserAction(t)]
           /\ userActionId' = CellAfterTrigger(variant, userActionId, id)
    /\ emitted' = NothingEmitted
    /\ lastEvent' = NoEvent
    /\ UNCHANGED <<variant, published, report, lastSignal, reqState, seenStart, nonDetectorVars>>

\* lifeCycle.notify(DOM_MUTATED)
DomMutated(d) ==
    /\ CanElapse(d)
    /\ Deliver(now + d, SamePending, Subscribed)
    /\ lastEvent' = DomMutatedEvent
    /\ UNCHANGED <<reqState, seenStart, nonDetectorVars>>

\* lifeCycle.notify(PERFORMANCE_ENTRY_COLLECTED, entry)
PerformanceEntry(d, entryType) ==
    /\ CanElapse(d)
    /\ Deliver(now + d, SamePending,
               IF PerformanceEntryCounts(variant, entryType) THEN Subscribed ELSE {})
    /\ lastEvent' = PerformanceEntryEvent(entryType)
    /\ UNCHANGED <<reqState, seenStart, nonDetectorVars>>

\* lifeCycle.notify(REQUEST_COLLECTED, {kind: Start, requestId: r})
RequestStart(d, r) ==
    /\ reqState[r] = "new"
    /\ CanElapse(d)
    /\ Deliver(now + d,
               [i \in Ids |-> IF i \in Subscribed THEN AfterStart(ua[i].pendingRequests, r)
                              ELSE ua[i].pendingRequests],
               Subscribed)
    /\ reqState' = [reqState EXCEPT ![r] = "started"]
    /\ seenStart' = [i \in Ids |-> IF i \in Subscribed THEN seenStart[i] \cup {r}
                                   ELSE seenStart[i]]
    /\ lastEvent' = RequestEvent("Start", r)
    /\ UNCHANGED nonDetectorVars

\* lifeCycle.notify(REQUEST_COLLECTED, {kind: End, requestId: r}); an End for an
\* id that already ended is a stray signal.
RequestEnd(d, r) ==
    /\ reqState[r] # "new"
    /\ CanElapse(d)
    /\ Deliver(now + d,
               [i \in Ids |-> IF i \in Subscribed THEN AfterEnd(ua[i].pendingRequests, r)
                              ELSE ua[i].pendingRequests],
               EndNotified(r))
    /\ reqState' = [reqState EXCEPT ![r] = "ended"]
    /\ lastEvent' = RequestEvent("End", r)
    /\ UNCHANGED <<seenStart, nonDetectorVars>>

\* The validation timer of interaction i fires.
ValidationTimeout(i) ==
    /\ Timer("validation", ua[i].validationTimeoutId) \in ua[i].timers
    /\ IsDue(ua[i].validationTimeoutId)
    /\ now' = ua[i].validationTimeoutId
    /\ published' = [published EXCEPT ![i] = PublishAborted(variant, @)]
    /\ report' = [report EXCEPT ![i] =
                    IF PublishAborted(variant, published[i]) = published[i] THEN @
                    ELSE AbortedReport(ua[i], now')]
    /\ ua' = [ua EXCEPT ![i] = [Stop(@) EXCEPT
                    !.timers = @ \ {Timer("validation", ua[i].validationTimeoutId)}]]
    /\ userActionId' = CellAfterAbort(variant, userActionId, i)
    /\ emitted' = NothingEmitted
    /\ lastEvent' = NoEvent
    /\ UNCHANGED <<variant, nextId, lastSignal, reqState, nEvents, seenStart, nonDetectorVars>>

\* An idle timer of interaction i fires.
IdleTimeout(i) ==
    \E tm \in ua[i].timers :
        /\ tm.kind = "idle"
        /\ IsDue(tm.deadline)
        /\ now' = tm.deadline
        /\ published' = [published EXCEPT ![i] = PublishEnded(variant, @)]
        /\ report' = [report EXCEPT ![i] =
                        IF PublishEnded(variant, published[i]) = published[i] THEN @
                        ELSE EndedReport(ua[i], now')]
        /\ ua' = [ua EXCEPT ![i] = [Stop(@) EXCEPT !.timers = @ \ {tm}]]
        /\ userActionId' = CellAfterEnd(variant, userActionId, i)
        /\ emitted' = NothingEmitted
        /\ lastEvent' = NoEvent
        /\ UNCHANGED <<variant, nextId, lastSignal, reqState, nEvents, seenStart, nonDetectorVars>>

\* ------------------------------------------------ request tracker (requestCollection)
XhrStatuses == {0, 200}
FetchStatuses == {200, 500}
NoStatus == -1

NewXhr == [state |-> "unsent", hasMethodAndUrl |-> FALSE, loadendListeners |-> <<>>]
NoFetch == [state |-> "none", settled |-> "none", status |-> NoStatus,
            bodyReadable |-> TRUE, caller |-> "none"]
EmptyLog == [starts |-> 0, ends |-> 0, endBeforeStart |-> FALSE,
             status |-> NoStatus, response |-> "none"]

\* observable.notify({requestId, kind: RequestEventKind.Start, ...})
NotifyStart(log, r) == [log EXCEPT ![r].starts = @ + 1]

\* observable.notify({requestId, kind: RequestEventKind.End, details: {status, response}})
NotifyEnd(log, r, status, response) ==
    [log EXCEPT ![r].ends = @ + 1,
                ![r].endBeforeStart = @ \/ log[r].starts = 0,
                ![r].status = status,
                ![r].response = response]

\* dispatch of 'loadend' on the XMLHttpRequest: every registered reportXhr
\* closure runs, in registration order, each with the requestId it closed over.
RECURSIVE RunLoadendListeners(_, _, _)
RunLoadendListeners(log, listeners, status) ==
    IF listeners = <<>> THEN log
    ELSE RunLoadendListeners(NotifyEnd(log, Head(listeners), status, "xhr.response"),
                             Tail(listeners), status)

\* this.addEventListener('loadend', monitor(reportXhr)): each send registers a
\* new closure, and none is ever removed.
AddLoadendListener(listeners, r) == Append(listeners, r)

\* Variant of FetchReturn: the wrapper returns the promise made by .then().
FetchReturnsChained == "reportPromise"

\* What window.fetch (the wrapper) returns to its caller.
FetchReturn == "responsePromise"

\* What the caller of the wrapper observes when the original promise settles as
\* `settled`: the original outcome if it was handed responsePromise itself; the
\* promise made by .then(reportFetch, reportFetch) fulfils with undefined.
ObservedByCaller(returned, settled) ==
    IF returned = "responsePromise" THEN settled ELSE "fulfilled with undefined"

\* reportFetch, `'stack' in response || response instanceof Error` branch.
FetchErrorEnd(log, r) == NotifyEnd(log, r, 0, "stack trace")

\* Variant of FetchResponseEnd without the try/catch around text(): a body that
\* cannot be read ends reportFetch before it notifies.
FetchResponseEndNoCatch(log, r, status, bodyReadable) ==
    IF bodyReadable THEN NotifyEnd(log, r, status, "body text") ELSE log

\* reportFetch, `'status' in response` branch, after response.clone().text().
FetchResponseEnd(log, r, status, bodyReadable) ==
    NotifyEnd(log, r, status,
              IF bodyReadable THEN "body text" ELSE "Unable to retrieve response")

\* Module state of requestCollection before the first startRequestCollection():
\* requestObservable undefined, XMLHttpRequest and fetch not wrapped.
NotStarted == [requestObservable |-> Undefined, created |-> 0, xhrWraps |-> 0,
               fetchWraps |-> 0, returned |-> {}, calls |-> 0]

\* Variant of StartRequestCollection without the `if (!requestObservable)` guard.
StartRequestCollectionUnguarded(c) ==
    [c EXCEPT !.requestObservable = c.created + 1,
              !.created = @ + 1,
              !.xhrWraps = @ + 1,
              !.fetchWraps = @ + 1,
              !.returned = @ \cup {c.created + 1},
              !.calls = @ + 1]

\* startRequestCollection(): on the first call a new Observable is made and
\* trackXhr and trackFetch each wrap once; every call returns requestObservable.
StartRequestCollection(c) ==
    IF c.requestObservable = Undefined
    THEN [c EXCEPT !.requestObservable = c.created + 1,
                   !.created = @ + 1,
                   !.xhrWraps = @ + 1,
                   !.fetchWraps = @ + 1,
                   !.returned = @ \cup {c.created + 1},
                   !.calls = @ + 1]
    ELSE [c EXCEPT !.returned = @ \cup {c.requestObservable},
                   !.calls = @ + 1]

\* The ids generateUUID() hands to the `layers` wrappers a call goes through.
NewRequestIds(layers) == (nextRequestId + 1)..(nextRequestId + layers)

\* Every wrapper the call goes through notifies its own Start.
NotifyStarts(log, ids) ==
    [r \in RequestIds |-> IF r \in ids THEN NotifyStart(log, r)[r] ELSE log[r]]

\* Every wrapper the call goes through adds its own loadend listener.
RECURSIVE AddLoadendListeners(_, _, _)
AddLoadendListeners(listeners, first, last) ==
    IF first > last THEN listeners
    ELSE AddLoadendListeners(AddLoadendListener(listeners, first), first + 1, last)

TrackerInit ==
    /\ xhr = NewXhr
    /\ fetches = [r \in RequestIds |-> NoFetch]
    /\ reqLog = [r \in RequestIds |-> EmptyLog]
    /\ nextRequestId = 0
    /\ collection = NotStarted
    /\ trackedCalls = 0

\* startRequestCollection() is called.
StartCollection ==
    /\ collection.calls < MaxStartCalls
    /\ collection' = StartRequestCollection(collection)
    /\ UNCHANGED <<xhr, fetches, reqLog, nextRequestId, trackedCalls, nonTrackerVars>>

\* XMLHttpRequest.prototype.open (wrapped): records method and url, then the
\* native open; the object may be opened again once its request is over.
XhrOpen ==
    /\ collection.xhrWraps >= 1
    /\ xhr.state # "loading"
    /\ xhr' = [xhr EXCEPT !.state = "opened", !.hasMethodAndUrl = TRUE]
    /\ UNCHANGED <<fetches, reqLog, nextRequestId, collection, trackedCalls, nonTrackerVars>>

\* XMLHttpRequest.prototype.send (wrapped): a new requestId, Start notified, a
\* loadend listener added, then the native send, which throws InvalidStateError
\* unless the object is opened.
XhrSend ==
    /\ collection.xhrWraps >= 1
    /\ xhr.hasMethodAndUrl
    /\ nextRequestId + collection.xhrWraps <= MaxRequests
    /\ LET ids == NewRequestIds(collection.xhrWraps)
       IN  /\ nextRequestId' = nextRequestId + collection.xhrWraps
           /\ reqLog' = NotifyStarts(reqLog, ids)
           /\ xhr' = [xhr EXCEPT
                        !.loadendListeners =
                            AddLoadendListeners(@, nextRequestId + 1,
                                                nextRequestId + collection.xhrWraps),
                        !.state = IF @ = "opened" THEN "loading" ELSE @]
    /\ trackedCalls' = trackedCalls + 1
    /\ UNCHANGED <<fetches, collection, nonTrackerVars>>

\* The request of the XMLHttpRequest is over (load, error, abort or timeout).
XhrLoadEnd(status) ==
    /\ xhr.state = "loading"
    /\ xhr' = [xhr EXCEPT !.state = "done"]
    /\ reqLog' = RunLoadendListeners(reqLog, xhr.loadendListeners, status)
    /\ UNCHANGED <<fetches, nextRequestId, collection, trackedCalls, nonTrackerVars>>

\* window.fetch (wrapped) is called.
FetchCall ==
    /\ collection.fetchWraps >= 1
    /\ nextRequestId + collection.fetchWraps <= MaxRequests
    /\ LET ids == NewRequestIds(collection.fetchWraps)
       IN  /\ nextRequestId' = nextRequestId + collection.fetchWraps
           /\ reqLog' = NotifyStarts(reqLog, ids)
           /\ fetches' = [r \in RequestIds |->
                            IF r \in ids THEN [fetches[r] EXCEPT !.state = "pending"]
                            ELSE fetches[r]]
    /\ trackedCalls' = trackedCalls + 1
    /\ UNCHANGED <<xhr, collection, nonTrackerVars>>

\* The original fetch promise rejects (network-level failure).
FetchReject(r) ==
    /\ fetches[r].state = "pending"
    /\ reqLog' = FetchErrorEnd(reqLog, r)
    /\ fetches' = [fetches EXCEPT ![r].state = "done",
                                  ![r].settled = "rejected with the error",
                                  ![r].caller = ObservedByCaller(FetchReturn,
                                                    "rejected with the error")]
    /\ UNCHANGED <<xhr, nextRequestId, collection, trackedCalls, nonTrackerVars>>

\* The original fetch promise fulfils with a response; reportFetch starts
\* reading a clone of its body.
FetchResolve(r, status, bodyReadable) ==
    /\ fetches[r].state = "pending"
    /\ fetches' = [fetches EXCEPT ![r].state = "reading",
                                  ![r].settled = "fulfilled with the response",
                                  ![r].status = status,
                                  ![r].bodyReadable = bodyReadable,
                                  ![r].caller = ObservedByCaller(FetchReturn,
                                                    "fulfilled with the response")]
    /\ UNCHANGED <<xhr, reqLog, nextRequestId, collection, trackedCalls, nonTrackerVars>>

\* response.clone().text() settles and reportFetch goes on.
FetchBodyRead(r) ==
    /\ fetches[r].state = "reading"
    /\ reqLog' = FetchResponseEnd(reqLog, r, fetches[r].status, fetches[r].bodyReadable)
    /\ fetches' = [fetches EXCEPT ![r].state = "done"]
    /\ UNCHANGED <<xhr, nextRequestId, collection, trackedCalls, nonTrackerVars>>

\* ------------------------------------------- isRejected / isServerError
\* RequestDetails.status and .responseType are optional: `present` tells
\* whether the field is set, `value` is what it holds.
Statuses == {-1, 0, 1, 200, 404, 499, 500, 501, 503, 599}
ResponseTypes == {"opaque", "basic", "cors", "error", ""}
AbsentStatus == [present |-> FALSE, value |-> 0]
AbsentResponseType == [present |-> FALSE, value |-> ""]
RequestDetails ==
    [status : [present : {TRUE}, value : Statuses] \cup {AbsentStatus},
     responseType : [present : {TRUE}, value : ResponseTypes] \cup {AbsentResponseType}]

\* x === v for an optional field: undefined is strictly equal to no value.
StrictEquals(field, v) == field.present /\ field.value = v

\* Variant of IsRejected that forgets the responseType test.
IsRejectedAnyType(r) == StrictEquals(r.status, 0)

\* isRejected(request)
IsRejected(r) == StrictEquals(r.status, 0) /\ ~StrictEquals(r.responseType, "opaque")

\* isServerError(request): typeof request.status === 'number' && request.status >= 500
IsServerError(r) == r.status.present /\ r.status.value >= 500

NoVerdict == [computed |-> FALSE, isRejected |-> FALSE, isServerError |-> FALSE]

ClassifierInit ==
    /\ request = [status |-> AbsentStatus, responseType |-> AbsentResponseType]
    /\ verdict = NoVerdict

\* Both functions are applied to the request.
Classify ==
    /\ ~verdict.computed
    /\ verdict' = [computed |-> TRUE,
                   isRejected |-> IsRejected(request),
                   isServerError |-> IsServerError(request)]
    /\ UNCHANGED <<request, detectorVars, trackerVars, viewVars, domVars>>

\* ------------------------------------------------------------ view tracker
Paths == {"/foo", "/bar"}
Searches == {"", "?bar=qux"}
Hashes == {"", "#bar"}
Urls == [pathname : Paths, search : Searches, hash : Hashes]
ViewEntryTypes == {"longtask", "paint", "navigation"}
NoMeasures == [errorCount |-> 0, longTaskCount |-> 0, userActionCount |-> 0]

\* Variant of AreDifferentViews that compares the whole url.
AreDifferentViewsByHref(previous, current) == previous # current

\* Two locations are different views when their pathnames differ.
AreDifferentViews(previous, current) == previous.pathname # current.pathname

\* The view event handed to addRumEvent.
ViewEvent(id, measures) == [viewId |-> id, measures |-> measures]

\* Variant of TrackMeasures that counts every performance entry as a long task.
TrackMeasuresAnyEntry(measures, type, entryType) ==
    CASE type = "error" -> [measures EXCEPT !.errorCount = @ + 1]
      [] type = "performance" -> [measures EXCEPT !.longTaskCount = @ + 1]
      [] type = "userAction" -> [measures EXCEPT !.userActionCount = @ + 1]
      [] OTHER -> measures

\* The measures of the current view after one lifecycle notification.
TrackMeasures(measures, type, entryType) ==
    CASE type = "error" -> [measures EXCEPT !.errorCount = @ + 1]
      [] type = "performance" /\ entryType = "longtask" ->
            [measures EXCEPT !.longTaskCount = @ + 1]
      [] type = "userAction" -> [measures EXCEPT !.userActionCount = @ + 1]
      [] OTHER -> measures

\* trackView(batch, location, lifeCycle, addRumEvent) has run on '/foo':
\* the first view has begun and its event was emitted.
ViewInit ==
    /\ location = [pathname |-> "/foo", search |-> "", hash |-> ""]
    /\ viewId = 1
    /\ activeLocation = location
    /\ viewMeasures = NoMeasures
    /\ rumEvents = <<ViewEvent(1, NoMeasures)>>
    /\ notifiedSinceView = <<>>
    /\ nViewInputs = 0

\* history.pushState(_, _, url): the location changes, and on a different
\* view the ending view's event is emitted and a new view begins.
PushState(url) ==
    /\ nViewInputs < MaxViewInputs
    /\ nViewInputs' = nViewInputs + 1
    /\ location' = url
    /\ IF AreDifferentViews(activeLocation, url)
       THEN /\ viewId' = viewId + 1
            /\ activeLocation' = url
            /\ viewMeasures' = NoMeasures
            /\ rumEvents' = rumEvents \o <<ViewEvent(viewId, viewMeasures),
                                           ViewEvent(viewId + 1, NoMeasures)>>
            /\ notifiedSinceView' = <<>>
       ELSE UNCHANGED <<viewId, activeLocation, viewMeasures, rumEvents, notifiedSinceView>>
    /\ UNCHANGED <<detectorVars, trackerVars, classifierVars, domVars>>

\* lifeCycle.notify(type, data); entryType is data.entryType of a performance entry.
ViewNotify(type, entryType) ==
    /\ nViewInputs < MaxViewInputs
    /\ nViewInputs' = nViewInputs + 1
    /\ viewMeasures' = TrackMeasures(viewMeasures, type, entryType)
    /\ notifiedSinceView' = Append(notifiedSinceView, [type |-> type, entryType |-> entryType])
    /\ UNCHANGED <<location, viewId, activeLocation, rumEvents>>
    /\ UNCHANGED <<detectorVars, trackerVars, classifierVars, domVars>>

NotifyError == ViewNotify("error", "")
NotifyPerformance(entryType) == ViewNotify("performance", entryType)
NotifyUserAction == ViewNotify("userAction", "")

\* ------------------------------------------------ DOM mutation collection
\* The LifeCycle objects a caller may pass.
LifeCycles == {"lifeCycleA", "lifeCycleB"}

\* Variant of StartDOMMutationCollection without the `if (!hasStarted)` guard.
StartDOMMutationCollectionUnguarded(started, installed, lifeCycle) ==
    [hasStarted |-> TRUE, observers |-> Append(installed, lifeCycle)]

\* startDOMMutationCollection(lifeCycle): the first call installs an observer
\* whose callback notifies `lifeCycle`, and sets hasStarted.
StartDOMMutationCollection(started, installed, lifeCycle) ==
    IF ~started
    THEN [hasStarted |-> TRUE, observers |-> Append(installed, lifeCycle)]
    ELSE [hasStarted |-> started, observers |-> installed]

\* The number of installed observers whose callback notifies lifeCycle l.
ObserversOf(installed, l) == Cardinality({k \in DOMAIN installed : installed[k] = l})

DomInit ==
    /\ hasStarted = FALSE
    /\ observers = <<>>
    /\ domNotified = [l \in LifeCycles |-> 0]
    /\ startCalls = <<>>
    /\ domChanges = 0
    /\ domChangesSinceStart = 0

\* startDOMMutationCollection(lifeCycle) is called.
StartDomCollection(lifeCycle) ==
    /\ Len(startCalls) < MaxDomStarts
    /\ LET after == StartDOMMutationCollection(hasStarted, observers, lifeCycle)
       IN  /\ hasStarted' = after.hasStarted
           /\ observers' = after.observers
    /\ startCalls' = Append(startCalls, lifeCycle)
    /\ UNCHANGED <<domNotified, domChanges, domChangesSinceStart>>
    /\ UNCHANGED <<detectorVars, trackerVars, classifierVars, viewVars>>

\* The document changes: the callback of every installed observer runs and
\* notifies DOM_MUTATED on its lifeCycle.
DomChange ==
    /\ domChanges < MaxDomChanges
    /\ domChanges' = domChanges + 1
    /\ domChangesSinceStart' = IF startCalls # <<>> THEN domChangesSinceStart + 1
                               ELSE domChangesSinceStart
    /\ domNotified' = [l \in LifeCycles |-> domNotified[l] + ObserversOf(observers, l)]
    /\ UNCHANGED <<hasStarted, observers, startCalls>>
    /\ UNCHANGED <<detectorVars, trackerVars, classifierVars, viewVars>>

Init == DetectorInit /\ TrackerInit /\ ClassifierInit /\ ViewInit /\ DomInit

Next ==
    \/ \E d \in Delays : Click(d)
    \/ \E d \in Delays : DomMutated(d)
    \/ \E d \in Delays, e \in EntryTypes : PerformanceEntry(d, e)
    \/ \E d \in Delays, r \in RequestIds : RequestStart(d, r)
    \/ \E d \in Delays, r \in RequestIds : RequestEnd(d, r)
    \/ \E i \in Ids : ValidationTimeout(i)
    \/ \E i \in Ids : IdleTimeout(i)

Spec == Init /\ [][Next]_vars

NextTracker ==
    \/ StartCollection
    \/ XhrOpen
    \/ XhrSend
    \/ \E status \in XhrStatuses : XhrLoadEnd(status)
    \/ FetchCall
    \/ \E r \in RequestIds : FetchReject(r)
    \/ \E r \in RequestIds, status \in FetchStatuses, bodyReadable \in BOOLEAN :
          FetchResolve(r, status, bodyReadable)
    \/ \E r \in RequestIds : FetchBodyRead(r)

SpecTracker == Init /\ [][NextTracker]_vars

\* isRejected and isServerError applied to any request details record.
InitClassifier ==
    /\ DetectorInit /\ TrackerInit /\ ViewInit /\ DomInit
    /\ request \in RequestDetails
    /\ verdict = NoVerdict

NextClassifier == Classify

SpecClassifier == InitClassifier /\ [][NextClassifier]_vars

NextView ==
    \/ \E url \in Urls : PushState(url)
    \/ NotifyError
    \/ \E entryType \in ViewEntryTypes : NotifyPerformance(entryType)
    \/ NotifyUserAction

SpecView == Init /\ [][NextView]_vars

NextDom ==
    \/ \E lifeCycle \in LifeCycles : StartDomCollection(lifeCycle)
    \/ DomChange

SpecDom == Init /\ [][NextDom]_vars

\* Timers fire: the event loop runs every due timer callback.
FairSpec ==
    /\ Spec
    /\ WF_vars(\E i \in Ids : ValidationTimeout(i))
    /\ WF_vars(\E i \in Ids : IdleTimeout(i))

\* ------------------------------------------------------------- properties
Triggered(i) == ua[i].startTime # NoTime
Terminal(i) == published[i].aborted + published[i].ended
IsOpen(i) == Triggered(i) /\ Terminal(i) = 0
ReceivedSignal(i) == lastSignal[i] # NoTime
ValidationArmed(i) == \E tm \in ua[i].timers : tm.kind = "validation"
IdleArmed(i) == \E tm \in ua[i].timers : tm.kind = "idle"

\* C1: for every interaction id the detector publishes at most one terminal
\* event (Aborted or Ended, never both), and once a terminal event is published
\* it is the last event published for that id (no Extended follows it).
C1_OneTerminalAndLast ==
    \A i \in Ids :
        /\ Terminal(i) <= 1
        /\ Terminal(i) = 1 => published[i].last \in {"Aborted", "Ended"}

\* Interaction 1 was extended and then ended, and a signal delivered after its
\* end extended interaction 2.
C1_Witness ==
    /\ MaxClicks >= 2
    /\ published[1].ended = 1
    /\ published[1].extended >= 1
    /\ published[2].extended >= 1
    /\ lastSignal[2] > report[1].at

\* C2 (as claimed): the duration of a completed report equals the time at
\* which the idle timer fired minus the trigger time.
C2_DurationIsFireTime ==
    \A i \in Ids :
        report[i].name = "click" => report[i].duration = report[i].at - ua[i].startTime

\* C2 (amended): the duration of a completed report equals the time of the
\* last activity signal minus the trigger time, and the report is published
\* IDLE_DELAY after that signal.
C2_DurationIsLastSignal ==
    \A i \in Ids :
        report[i].name = "click" =>
            /\ report[i].duration = lastSignal[i] - ua[i].startTime
            /\ report[i].at = lastSignal[i] + IDLE_DELAY

\* Trigger at 0, request start at 10, request end at 250: completed report
\* published at 350, with duration 250.
C2_Witness ==
    \E i \in Ids :
        /\ ua[i].startTime = 0
        /\ report[i] = [name |-> "click", at |-> 350, duration |-> 250]
        /\ \E r \in RequestIds : reqState[r] = "ended"

\* C3: an interaction that received no activity signal within BUSY_DELAY of
\* its trigger publishes exactly one aborted report, at trigger + BUSY_DELAY,
\* without a duration, and no Extended observation is ever published for it.
C3_AbortWithoutActivity ==
    \A i \in Ids :
        /\ (/\ Triggered(i)
            /\ ~ReceivedSignal(i)
            /\ (now > ua[i].startTime + BUSY_DELAY \/ ~ValidationArmed(i)))
           => published[i].aborted = 1
        /\ published[i].aborted >= 1 =>
            /\ published[i] = [extended |-> 0, aborted |-> 1, ended |-> 0, last |-> "Aborted"]
            /\ report[i] = [name |-> "click ignored",
                            at |-> ua[i].startTime + BUSY_DELAY,
                            duration |-> NoTime]

\* Interaction 1 was aborted although signals were flowing: interaction 2,
\* triggered later, was extended.
C3_Witness ==
    /\ MaxClicks >= 2
    /\ published[1].aborted = 1
    /\ published[2].extended >= 1
    /\ now > ua[1].startTime + BUSY_DELAY

\* C4 (as claimed): every triggered interaction eventually publishes a
\* terminal report, whatever signals it received.
C4_AlwaysTerminates ==
    \A i \in Ids : Triggered(i) ~> (Terminal(i) = 1)

\* C4 (amended): eventually every triggered interaction either has published
\* its terminal report or is waiting for the End of a request whose Start it
\* received (its pending-request set is not empty).
C4_TerminatesUnlessBusy ==
    <>[](\A i \in Ids : Triggered(i) => (Terminal(i) = 1 \/ ua[i].pendingRequests # {}))

\* An interaction that was busy for a while (a request started and ended)
\* has published its completed report.
C4_Witness ==
    \E i \in Ids :
        /\ published[i].ended = 1
        /\ lastSignal[i] > ua[i].startTime + BUSY_DELAY + IDLE_DELAY
        /\ \E r \in RequestIds : reqState[r] = "ended"

\* C5: no terminal report is published less than IDLE_DELAY after the last
\* activity signal an interaction received, and a completed report is
\* published only IDLE_DELAY or more after that signal, with the
\* interaction's pending-request set empty.
C5_OpenWhileActive ==
    \A i \in Ids :
        /\ (ReceivedSignal(i) /\ now < lastSignal[i] + IDLE_DELAY) => Terminal(i) = 0
        /\ published[i].ended >= 1 =>
            /\ report[i].at - lastSignal[i] >= IDLE_DELAY
            /\ ua[i].pendingRequests = {}

\* Without any request, an interaction stayed open for longer than both
\* delays together because signals kept arriving, and then ended.
C5_Witness ==
    \E i \in Ids :
        /\ published[i].ended = 1
        /\ published[i].extended >= 2
        /\ report[i].at - ua[i].startTime > BUSY_DELAY + IDLE_DELAY
        /\ \A r \in RequestIds : reqState[r] = "new"

\* C6: when an interaction is aborted, the current interaction id is cleared:
\* right after the abort getUserActionId() returns undefined.
C6_AbortClearsCell ==
    [][\A i \in Ids :
          published'[i].aborted > published[i].aborted => userActionId' = Undefined]_vars

\* C7: between its trigger and the first activity signal it receives, an
\* interaction's id is not what getUserActionId() returns.
C7_LateBound ==
    \A i \in Ids : (Triggered(i) /\ ~ReceivedSignal(i)) => userActionId # i

\* C8: at most one interaction is Open at any moment.
C8_SingleOpenWindow ==
    Cardinality({i \in Ids : IsOpen(i)}) <= 1

\* C9: for every requestId, at most one Start and at most one End are ever
\* published, and no End is published before the Start; a request that is over
\* has exactly one of each.
C9_OneStartOneEnd ==
    \A r \in RequestIds :
        /\ reqLog[r].starts <= 1
        /\ reqLog[r].ends <= 1
        /\ ~reqLog[r].endBeforeStart
        /\ fetches[r].state = "done" => (reqLog[r].starts = 1 /\ reqLog[r].ends = 1)

\* C10: when the original fetch promise rejects, exactly one End with status 0
\* is published for the requestId and the caller observes the original
\* rejection.
C10_RejectedFetch ==
    \A r \in RequestIds :
        fetches[r].settled = "rejected with the error" =>
            /\ reqLog[r].starts = 1
            /\ reqLog[r].ends = 1
            /\ reqLog[r].status = 0
            /\ fetches[r].caller = "rejected with the error"

\* Two fetches were rejected, and each has its own End.
C10_Witness ==
    /\ MaxRequests >= 2
    /\ \A r \in 1..2 : fetches[r].settled = "rejected with the error" /\ reqLog[r].ends = 1

\* C11: a fetch that fulfilled with a response whose body could not be read
\* has, once reportFetch is over, exactly one End, carrying the response's
\* status and the placeholder text as response.
C11_UnreadableBody ==
    \A r \in RequestIds :
        (fetches[r].state = "done" /\ fetches[r].settled = "fulfilled with the response"
            /\ ~fetches[r].bodyReadable) =>
            /\ reqLog[r].ends = 1
            /\ reqLog[r].status = fetches[r].status
            /\ reqLog[r].response = "Unable to retrieve response"

\* A fetch answered with status 500 and an unreadable body has its End.
C11_Witness ==
    \E r \in RequestIds :
        /\ fetches[r].state = "done"
        /\ ~fetches[r].bodyReadable
        /\ fetches[r].status = 500
        /\ reqLog[r].ends = 1

\* C12: however often startRequestCollection is called, XMLHttpRequest and
\* fetch are each wrapped exactly once, every call returns the same
\* observable, and every network call publishes one Start event.
C12_StartIsIdempotent ==
    /\ collection.calls >= 1 =>
        /\ collection.xhrWraps = 1
        /\ collection.fetchWraps = 1
        /\ collection.created = 1
        /\ Cardinality(collection.returned) = 1
    /\ nextRequestId = trackedCalls
    /\ \A r \in RequestIds : reqLog[r].starts = IF r <= trackedCalls THEN 1 ELSE 0

\* startRequestCollection was called more than once, and calls were tracked
\* both before and after the later call.
C12_Witness ==
    /\ collection.calls >= 2
    /\ trackedCalls >= 2
    /\ xhr.state = "loading"
    /\ \E r \in RequestIds : fetches[r].state = "pending"

\* C13: isRejected returns true exactly for status 0 with a responseType
\* other than "opaque"; isServerError returns true exactly for a status of at
\* least 500, and false when the status is absent.
C13_Classification ==
    verdict.computed =>
        /\ verdict.isRejected =
              (/\ request.status = [present |-> TRUE, value |-> 0]
               /\ request.responseType # [present |-> TRUE, value |-> "opaque"])
        /\ verdict.isServerError =
              (\E n \in Statuses : n >= 500 /\ request.status = [present |-> TRUE, value |-> n])
        /\ ~request.status.present => ~verdict.isServerError /\ ~verdict.isRejected

\* An opaque response with status 0 was classified, and was not rejected.
C13_Witness ==
    /\ verdict.computed
    /\ request.status = [present |-> TRUE, value |-> 0]
    /\ request.responseType = [present |-> TRUE, value |-> "opaque"]
    /\ ~verdict.isRejected

\* C14: the view id changes in a step exactly when the pathname of the
\* location changes in it; a change of only search or hash keeps the id.
C14_ViewIdFollowsPath ==
    [][(viewId' # viewId) <=> (location'.pathname # location.pathname)]_vars

\* One pushState changed only search or hash and another changed the path.
C14_Witness ==
    /\ nViewInputs = 2
    /\ notifiedSinceView = <<>>
    /\ viewId = 2
    /\ location.search = "?bar=qux"
    /\ location.hash = "#bar"

CountNotified(type, entryTypes) ==
    Cardinality({k \in DOMAIN notifiedSinceView :
                    /\ notifiedSinceView[k].type = type
                    /\ notifiedSinceView[k].entryType \in entryTypes})

\* C15: the initial view event has all counts 0; on a view change the ending
\* view's event carries the numbers of error, longtask and userAction
\* notifications since that view began, and the new view's event follows with
\* all counts 0.
C15_CountsPerView ==
    /\ rumEvents[1].measures = NoMeasures
    /\ [][viewId' # viewId =>
            rumEvents' = rumEvents \o
                <<ViewEvent(viewId, [errorCount |-> CountNotified("error", {""}),
                                     longTaskCount |-> CountNotified("performance", {"longtask"}),
                                     userActionCount |-> CountNotified("userAction", {""})]),
                  ViewEvent(viewId', NoMeasures)>>]_vars

\* A view ended after an error, a long task and another performance entry.
C15_Witness ==
    /\ Len(rumEvents) = 3
    /\ nViewInputs = 4
    /\ rumEvents[2].measures = [errorCount |-> 1, longTaskCount |-> 1, userActionCount |-> 0]

\* The requests the lifecycle has carried a Start for, and no End yet.
Outstanding == {r \in RequestIds : reqState[r] = "started"}

\* The outstanding requests whose Start the correlator of interaction i received.
OutstandingFor(i) == {r \in seenStart[i] : reqState[r] = "started"}

\* C16 (as claimed): no idle timer is armed and no completed report is
\* published while any request is outstanding, whenever its Start was published.
C16_NoneOutstanding ==
    [][\A i \in Ids :
          (IdleArmed(i)' \/ published'[i].ended > published[i].ended)
              => Outstanding' = {}]_vars

\* C16 (amended): no idle timer of an interaction is armed and its completed
\* report is not published while a request is outstanding whose Start was
\* published after the interaction's trigger, while it was Open.
C16_NoneOutstandingSeen ==
    [][\A i \in Ids :
          (IdleArmed(i)' \/ published'[i].ended > published[i].ended)
              => OutstandingFor(i)' = {}]_vars

\* An interaction completed after a request of its own had started and
\* ended, while a request started before its trigger was still outstanding.
C16_Witness ==
    \E i \in Ids :
        /\ published[i].ended = 1
        /\ \E r \in seenStart[i] : reqState[r] = "ended"
        /\ \E r \in Outstanding : r \notin seenStart[i]

\* C17: every tracked signal makes a subscribed correlator notify exactly once,
\* with isBusy telling whether its pending-request set is non-empty after the
\* signal; the set changes only by adding the id of a Start and by removing
\* the id of a matching End.
C17_OneNotificationPerSignal ==
    [][\A i \in Ids :
          LET before == ua[i].pendingRequests
              after == ua'[i].pendingRequests
              event == lastEvent'
              isStart == event.type = "REQUEST_COLLECTED" /\ event.kind = "Start"
              isEnd == event.type = "REQUEST_COLLECTED" /\ event.kind = "End"
              isResource == event.type = "PERFORMANCE_ENTRY_COLLECTED"
                            /\ event.entryType = "resource"
          IN  /\ (isStart /\ ua[i].subscribed) =>
                    /\ after = before \cup {event.requestId}
                    /\ emitted'[i] = <<[isBusy |-> TRUE]>>
              /\ (isEnd /\ ua[i].subscribed /\ event.requestId \in before) =>
                    /\ after = before \ {event.requestId}
                    /\ emitted'[i] = <<[isBusy |-> after # {}]>>
              /\ ((event = DomMutatedEvent \/ isResource) /\ ua[i].subscribed) =>
                    /\ after = before
                    /\ emitted'[i] = <<[isBusy |-> before # {}]>>
              /\ after # before =>
                    \/ isStart /\ after = before \cup {event.requestId}
                    \/ isEnd /\ event.requestId \in before
                             /\ after = before \ {event.requestId}]_vars

\* A click, the Start of a request and its End: the End left the set empty
\* and was notified with isBusy false.
C17_Witness ==
    \E i \in Ids, r \in RequestIds :
        /\ r \in seenStart[i]
        /\ lastEvent = RequestEvent("End", r)
        /\ emitted[i] = <<[isBusy |-> FALSE]>>

\* C18: an End for an id that is not in the pending-request set of a
\* correlator removes nothing, notifies nothing and leaves the interaction's
\* timers and observations alone; an id leaves the set only by an End with
\* that id, and only once.
C18_UntrackedEndIgnored ==
    [][\A i \in Ids :
          LET event == lastEvent'
              isEnd == event.type = "REQUEST_COLLECTED" /\ event.kind = "End"
          IN  /\ (isEnd /\ event.requestId \notin ua[i].pendingRequests) =>
                    /\ ua'[i] = ua[i]
                    /\ emitted'[i] = <<>>
                    /\ published'[i] = published[i]
                    /\ lastSignal'[i] = lastSignal[i]
              /\ \A r \in ua[i].pendingRequests \ ua'[i].pendingRequests :
                    /\ isEnd /\ event.requestId = r
                    /\ reqState[r] = "started"
                    /\ reqState'[r] = "ended"]_vars

\* A request started before the click and ended after it: the interaction
\* still waits on its validation timer and has received no signal.
C18_Witness ==
    \E i \in Ids, r \in RequestIds :
        /\ lastEvent = RequestEvent("End", r)
        /\ r \notin seenStart[i]
        /\ now > ua[i].startTime
        /\ ValidationArmed(i)
        /\ ~ReceivedSignal(i)

\* C19: a performance entry of a type other than 'resource' makes no
\* correlator of an Open interaction notify, publishes no Extended
\* observation and leaves the interaction's timers untouched.
C19_OnlyResourceEntries ==
    [][(lastEvent'.type = "PERFORMANCE_ENTRY_COLLECTED" /\ lastEvent'.entryType # "resource") =>
          \A i \in Ids :
              IsOpen(i) =>
                  /\ emitted'[i] = <<>>
                  /\ published'[i] = published[i]
                  /\ ua'[i].timers = ua[i].timers]_vars

\* C20: an interaction never has more than one timer armed, its validation
\* timer is not armed once it received an activity signal, and none of its
\* timers is armed after its terminal report.
C20_AtMostOneTimer ==
    \A i \in Ids :
        /\ Cardinality(ua[i].timers) <= 1
        /\ ReceivedSignal(i) => ~ValidationArmed(i)
        /\ Terminal(i) >= 1 => ua[i].timers = {}

\* An interaction received two signals while not busy: its idle timer was
\* armed, cancelled and armed again.
C20_Witness ==
    \E i \in Ids :
        /\ published[i].extended = 2
        /\ IdleArmed(i)
        /\ ua[i].idleTimeoutId = lastSignal[i] + IDLE_DELAY
        /\ lastSignal[i] > ua[i].startTime + 10
        /\ \A r \in RequestIds : reqState[r] = "new"

\* C22: getUserActionId() returns none or the id of an interaction that is
\* Open; never the id of one that was Aborted or Ended.
C22_CellHoldsOpenId ==
    userActionId # Undefined => IsOpen(userActionId)

\* C23: the terminal transition of an interaction changes the cell only if the
\* cell holds that interaction's own id; the id of another interaction that is
\* still Open and has received an activity signal stays in the cell.
C23_ClearsOwnIdOnly ==
    [][\A i \in Ids :
          Terminal(i)' > Terminal(i) =>
              /\ userActionId' # userActionId => userActionId = i
              /\ \A j \in Ids \ {i} :
                    (IsOpen(j)' /\ ReceivedSignal(j) /\ userActionId = j)
                        => userActionId' = j]_vars

\* C21: however often startDOMMutationCollection is called, one observer is
\* installed, for the lifeCycle of the first call; every DOM change since then
\* gave that lifeCycle exactly one DOM_MUTATED notification, and a lifeCycle
\* passed to a later call received none.
C21_OneObserver ==
    /\ Len(observers) <= 1
    /\ startCalls # <<>> =>
        /\ observers = <<startCalls[1]>>
        /\ \A l \in LifeCycles :
              domNotified[l] = IF l = startCalls[1] THEN domChangesSinceStart ELSE 0
    /\ startCalls = <<>> => \A l \in LifeCycles : domNotified[l] = 0

\* A second call passed another lifeCycle, and the DOM changed twice since
\* the first call.
C21_Witness ==
    /\ Len(startCalls) >= 2
    /\ startCalls[2] # startCalls[1]
    /\ domChangesSinceStart >= 2
    /\ domNotified[startCalls[1]] = 2

====
